---- MODULE Spec2Model ----
(***************************************************************************)
(* Catchpoint Prometheus exporter: one scrape of Collector.Collect, driven *)
(* by the seven fetch operations of CatchpointClientInterface.  A fetch    *)
(* step is one loop iteration (or one of the three single fetches) of      *)
(* Collect together with the normalisation and the emissions that follow   *)
(* it; the responses are the inputs.                                       *)
(***************************************************************************)
EXTENDS Integers, Sequences, FiniteSets, TLC

(***************************************************************************)
(* Bounds of the model.                                                    *)
(***************************************************************************)
\* longest configured node id list
MaxNodes == 2
\* longest top-level list of a response payload (node records, SLA items,
\* summary items, alerts, test runs, samples, buckets)
MaxItems == 2

(***************************************************************************)
(* Generic helpers.                                                        *)
(***************************************************************************)
SeqUpTo(S, n) == UNION {[1..k -> S] : k \in 0..n}

RECURSIVE SumSeq(_)
SumSeq(s) == IF s = <<>> THEN 0 ELSE s[1] + SumSeq(Tail(s))

RECURSIVE Flatten(_)
Flatten(ss) == IF ss = <<>> THEN <<>> ELSE ss[1] \o Flatten(Tail(ss))

Last(s) == s[Len(s)]

\* all orders in which the keys of a Go map can be ranged over
Orders(S) == {p \in [1..Cardinality(S) -> S] : \A i, j \in 1..Cardinality(S) : i # j => p[i] # p[j]}

(***************************************************************************)
(* strconv.Itoa / fmt.Sprintf("%d"): decimal rendering of an int.          *)
(***************************************************************************)
Digit == <<"0", "1", "2", "3", "4", "5", "6", "7", "8", "9">>

RECURSIVE Itoa(_)
Itoa(n) ==
    IF n < 0 THEN "-" \o Itoa(-n)
    ELSE IF n < 10 THEN Digit[n + 1]
    ELSE Itoa(n \div 10) \o Digit[(n % 10) + 1]

(***************************************************************************)
(* Metric families (names of the fourteen descriptors).                    *)
(***************************************************************************)
NodeStatusMetric == "catchpoint_node_status"
SLAPurgeItemsCountMetric == "catchpoint_sla_purge_items_count"
TestErrorTotalCountMetric == "catchpoint_test_error_total_count"
TestErrorByTypeMetric == "catchpoint_test_error_by_type_count"
TestErrorByIPCountMetric == "catchpoint_test_error_by_ip_count"
TestAlertsCriticalTotalMetric == "catchpoint_test_alerts_critical_count"
TestAlertsWarningTotalMetric == "catchpoint_test_alerts_warning_count"
TestUsagePercentageMetric == "catchpoint_usage_percentage"
TestDownTimePercentageMetric == "catchpoint_downtime_percentage"
TestRequestSlippageMetric == "catchpoint_node_request_slippage"
TestRunRateMetric == "catchpoint_node_run_rate"
TotalTestRunsCountMetric == "catchpoint_total_test_runs_count"
UniqueTestRunsCountMetric == "catchpoint_unique_test_runs_count"
UpMetric == "catchpoint_up"

Families ==
    {NodeStatusMetric, SLAPurgeItemsCountMetric, TestErrorTotalCountMetric,
     TestErrorByTypeMetric, TestErrorByIPCountMetric, TestAlertsCriticalTotalMetric,
     TestAlertsWarningTotalMetric, TestUsagePercentageMetric,
     TestDownTimePercentageMetric, TestRequestSlippageMetric, TestRunRateMetric,
     TotalTestRunsCountMetric, UniqueTestRunsCountMetric, UpMetric}

\* prometheus.MustNewConstMetric(desc, GaugeValue, value, labelValues...)
MustNewConstMetric(desc, value, labels) == [m |-> desc, l |-> labels, v |-> value]

\* result of normalising one response: the observations sent on the channel
\* and whether the goroutine panicked (nil dereference, index out of range)
Emitted(obs) == [obs |-> obs, panic |-> FALSE]
Panicked(obs) == [obs |-> obs, panic |-> TRUE]

(***************************************************************************)
(* The seven resources of CatchpointClientInterface.                       *)
(***************************************************************************)
KNodeStatus == "FetchNodeStatus"
KSLA == "FetchSLAPurgeItems"
KTestErrors == "FetchTestErrorsRaw"
KAlerts == "FetchAlerts"
KTestRuns == "FetchNodeTestRuns"
KRunRate == "FetchNodeRunRate"
KRunCount == "FetchNodeTestRunCount"

Resources == {KNodeStatus, KSLA, KTestErrors, KAlerts, KTestRuns, KRunRate, KRunCount}
PerNode == {KNodeStatus, KTestRuns, KRunRate, KRunCount}

\* node ids a configuration may name
NodeIdSet == {1, 2}

NodeName(n) == "Node " \o Itoa(n)

(***************************************************************************)
(* Node status: NodeStatusResponse and the node status loop of Collect.    *)
(***************************************************************************)
\* Status is a pointer: hasStatus is FALSE for a nil Status
NodeStatusNames == {"active", "Active", "inactive"}

NodeRecords ==
    {[Id |-> i, Name |-> NodeName(i), hasStatus |-> TRUE, StatusName |-> s] :
        i \in NodeIdSet, s \in NodeStatusNames}
    \cup {[Id |-> i, Name |-> NodeName(i), hasStatus |-> FALSE, StatusName |-> ""] :
        i \in NodeIdSet}

\* (response, error) of FetchNodeStatus: err is err != nil, isNil a nil
\* response pointer, hasData and hasNodes the Data and Data.Nodes pointers,
\* Errors the messages of the vendor's error list
NodeStatusResp(err, isNil, hasData, hasNodes, nodes) ==
    [err |-> err, isNil |-> isNil, hasData |-> hasData, hasNodes |-> hasNodes,
     Nodes |-> nodes, Errors |-> <<>>]

NodeStatusErr == NodeStatusResp(TRUE, TRUE, FALSE, FALSE, <<>>)

NodeStatusRef(n) ==
    NodeStatusResp(FALSE, FALSE, TRUE, TRUE,
        <<[Id |-> n, Name |-> NodeName(n), hasStatus |-> TRUE, StatusName |-> "active"]>>)

NodeStatusFull ==
    {NodeStatusErr,
     NodeStatusResp(FALSE, TRUE, FALSE, FALSE, <<>>),
     NodeStatusResp(FALSE, FALSE, FALSE, FALSE, <<>>),
     NodeStatusResp(FALSE, FALSE, TRUE, FALSE, <<>>)}
    \cup {NodeStatusResp(FALSE, FALSE, TRUE, TRUE, l) : l \in SeqUpTo(NodeRecords, MaxItems)}

\* a status compared without regard to the case of its first letter
StatusValueAnyCase(node) ==
    IF node.hasStatus /\ node.StatusName \in {"active", "Active"} THEN 1 ELSE 0

\* statusValue of one node record
StatusValue(node) == IF node.hasStatus /\ node.StatusName = "active" THEN 1 ELSE 0

NodeObs(node) ==
    MustNewConstMetric(NodeStatusMetric, StatusValue(node), <<Itoa(node.Id), node.Name>>)

NoDataNodeObs(nodeId) ==
    MustNewConstMetric(NodeStatusMetric, 0, <<Itoa(nodeId), "no_data">>)

\* body of the node status loop after a fetch without error
NodeStatusOutcomes(resp, nodeId) ==
    IF resp.isNil THEN {Panicked(<<>>)}
    ELSE IF resp.hasData /\ resp.hasNodes
         THEN {Emitted([i \in 1..Len(resp.Nodes) |-> NodeObs(resp.Nodes[i])])}
         ELSE {Emitted(<<NoDataNodeObs(nodeId)>>)}

(***************************************************************************)
(* SLA purge items: SLAPurgeItemsResponse and its block of Collect.        *)
(***************************************************************************)
\* an SLA item is represented by its StatusType.Name
SLAStatusNames == {"", "Active", "Expired"}

SLAResp(err, isNil, hasData, hasItems, items) ==
    [err |-> err, isNil |-> isNil, hasData |-> hasData, hasItems |-> hasItems,
     SLAItems |-> items, Errors |-> <<>>]

SLAErr == SLAResp(TRUE, TRUE, FALSE, FALSE, <<>>)

SLARef == SLAResp(FALSE, FALSE, TRUE, TRUE, <<"Active">>)

SLAFull ==
    {SLAErr,
     SLAResp(FALSE, TRUE, FALSE, FALSE, <<>>),
     SLAResp(FALSE, FALSE, FALSE, FALSE, <<>>),
     SLAResp(FALSE, FALSE, TRUE, FALSE, <<>>)}
    \cup {SLAResp(FALSE, FALSE, TRUE, TRUE, l) : l \in SeqUpTo(SLAStatusNames, MaxItems)}

\* countByStatus: items with a non-empty status type name, counted per name
CountByStatus(items) ==
    [s \in {items[i] : i \in {j \in 1..Len(items) : items[j] # ""}} |->
        Cardinality({i \in 1..Len(items) : items[i] = s})]

SLAObs(status, count) == MustNewConstMetric(SLAPurgeItemsCountMetric, count, <<status>>)

NoDataSLAObs == MustNewConstMetric(SLAPurgeItemsCountMetric, 0, <<"no_data">>)

\* body of the SLA block after a fetch without error; the map is ranged over
\* in an unspecified order
SLAOutcomes(resp) ==
    IF resp.isNil THEN {Panicked(<<>>)}
    ELSE IF resp.hasData /\ resp.hasItems
         THEN LET countByStatus == CountByStatus(resp.SLAItems)
              IN {Emitted([i \in 1..Len(o) |-> SLAObs(o[i], countByStatus[o[i]])]) :
                      o \in Orders(DOMAIN countByStatus)}
         ELSE {Emitted(<<NoDataSLAObs>>)}

(***************************************************************************)
(* Test errors: TestErrorsRawResponse and its block of Collect.            *)
(***************************************************************************)
\* A dimension name is a sequence of chunks; the chunk ":" is one colon and
\* no other chunk contains a colon.
RECURSIVE Join(_)
Join(chunks) == IF chunks = <<>> THEN "" ELSE chunks[1] \o Join(Tail(chunks))

\* index of the first colon of a name, 0 when it has none
FirstColon(name) ==
    IF \E i \in 1..Len(name) : name[i] = ":"
    THEN CHOOSE i \in 1..Len(name) : name[i] = ":" /\ \A j \in 1..(i - 1) : name[j] # ":"
    ELSE 0

\* a split at the last colon of the name
SplitAtLastColon(name) ==
    LET colons == {i \in 1..Len(name) : name[i] = ":"}
    IN IF colons = {} THEN <<Join(name)>>
       ELSE LET c == CHOOSE i \in colons : \A j \in colons : j <= i
            IN <<Join(SubSeq(name, 1, c - 1)), Join(SubSeq(name, c + 1, Len(name)))>>

\* strings.SplitN(name, ":", 2)
SplitN2(name) ==
    LET c == FirstColon(name)
    IN IF c = 0 THEN <<Join(name)>>
       ELSE <<Join(SubSeq(name, 1, c - 1)), Join(SubSeq(name, c + 1, Len(name)))>>

\* TestErrorSummaryItem: the Values and the names of the Dimensions
ValueSeqs == {<<>>, <<1>>, <<2, 1>>}
DimSeqs ==
    {<<>>,
     <<<<"ErrorType", ":", "DNS">>, <<"HostIP", ":", "192.0.2.1">>>>,
     <<<<"ErrorType", ":", "SSL">>>>,
     <<<<"ErrorType", ":", "DNS">>, <<"ErrorType", ":", "SSL">>>>,
     <<<<"HostIP", ":", "fe80", ":", "1">>, <<"Region", ":", "EU">>, <<"ErrorType">>>>}

SummaryItems == {[Values |-> v, Dimensions |-> d] : v \in ValueSeqs, d \in DimSeqs}

\* ResponseItems is represented by the SummaryItems of each response item
TestErrorsResp(err, isNil, items) ==
    [err |-> err, isNil |-> isNil, ResponseItems |-> items, Errors |-> <<>>]

TestErrorsErr == TestErrorsResp(TRUE, TRUE, <<>>)

SummaryItemOf(v, type, ip) ==
    [Values |-> <<v>>,
     Dimensions |-> <<<<"ErrorType", ":", type>>, <<"HostIP", ":", ip>>>>]

TestErrorsRef == TestErrorsResp(FALSE, FALSE, <<<<SummaryItemOf(6, "DNS", "192.0.2.1")>>>>)

\* the payload of the mock client of the collector tests
TestErrorsMock ==
    TestErrorsResp(FALSE, FALSE,
        <<<<SummaryItemOf(6, "DNS", "192.0.2.1"), SummaryItemOf(4, "Connection", "198.51.100.1"),
            SummaryItemOf(3, "SSL", "203.0.113.1"), SummaryItemOf(2, "NoResponse", "192.0.2.2")>>>>)

TestErrorsFull ==
    {TestErrorsErr, TestErrorsResp(FALSE, TRUE, <<>>), TestErrorsResp(FALSE, FALSE, <<>>),
     TestErrorsRef, TestErrorsMock}
    \cup {TestErrorsResp(FALSE, FALSE, <<l>>) : l \in SeqUpTo(SummaryItems, MaxItems)}
    \cup {TestErrorsResp(FALSE, FALSE, <<<<a>>, <<b>>>>) : a, b \in SummaryItems}

EmptyMap == [k \in {} |-> 0]

\* m[k] += x on a Go map
MapAdd(m, k, x) ==
    IF k \in DOMAIN m THEN [m EXCEPT ![k] = @ + x]
    ELSE [j \in DOMAIN m \cup {k} |-> IF j = k THEN x ELSE m[j]]

\* a group-by that counts the summary items instead of adding their first value
AddDimensionCountItems(acc, name, values) ==
    LET parts == SplitN2(name)
    IN IF Len(parts) = 2
       THEN IF parts[1] = "ErrorType" /\ Len(values) > 0
            THEN [acc EXCEPT !.errorsByType = MapAdd(@, parts[2], 1)]
            ELSE IF parts[1] = "HostIP" /\ Len(values) > 0
                 THEN [acc EXCEPT !.errorsByIP = MapAdd(@, parts[2], 1)]
                 ELSE acc
       ELSE acc

\* one dimension of a summary item
AddDimension(acc, name, values) ==
    LET parts == SplitN2(name)
    IN IF Len(parts) = 2
       THEN IF parts[1] = "ErrorType" /\ Len(values) > 0
            THEN [acc EXCEPT !.errorsByType = MapAdd(@, parts[2], values[1])]
            ELSE IF parts[1] = "HostIP" /\ Len(values) > 0
                 THEN [acc EXCEPT !.errorsByIP = MapAdd(@, parts[2], values[1])]
                 ELSE acc
       ELSE acc

RECURSIVE AddDimensions(_, _, _)
AddDimensions(acc, dims, values) ==
    IF dims = <<>> THEN acc
    ELSE AddDimensions(AddDimension(acc, dims[1], values), Tail(dims), values)

\* a total that takes the first value of a summary item only
AddSummaryFirstValue(acc, summary) ==
    AddDimensions([acc EXCEPT !.totalErrors =
                       @ + (IF Len(summary.Values) > 0 THEN summary.Values[1] ELSE 0)],
                  summary.Dimensions, summary.Values)

\* one summary item: its values go to the total, its dimensions to the maps
AddSummary(acc, summary) ==
    AddDimensions([acc EXCEPT !.totalErrors = @ + SumSeq(summary.Values)],
                  summary.Dimensions, summary.Values)

RECURSIVE AddSummaries(_, _)
AddSummaries(acc, summaries) ==
    IF summaries = <<>> THEN acc
    ELSE AddSummaries(AddSummary(acc, summaries[1]), Tail(summaries))

RECURSIVE AddResponseItems(_, _)
AddResponseItems(acc, items) ==
    IF items = <<>> THEN acc
    ELSE AddResponseItems(AddSummaries(acc, items[1]), Tail(items))

TestErrorTotals(resp) ==
    AddResponseItems([totalErrors |-> 0, errorsByType |-> EmptyMap, errorsByIP |-> EmptyMap],
                     resp.ResponseItems)

\* a total that is sent only when errors were counted
TestErrorsOutcomesSkipZero(resp) ==
    IF resp.isNil THEN {Panicked(<<>>)}
    ELSE LET t == TestErrorTotals(resp)
         IN {Emitted((IF t.totalErrors = 0 THEN <<>>
                      ELSE <<MustNewConstMetric(TestErrorTotalCountMetric, t.totalErrors, <<>>)>>)
                     \o [i \in 1..Len(ot) |->
                            MustNewConstMetric(TestErrorByTypeMetric, t.errorsByType[ot[i]], <<ot[i]>>)]
                     \o [i \in 1..Len(oi) |->
                            MustNewConstMetric(TestErrorByIPCountMetric, t.errorsByIP[oi[i]], <<oi[i]>>)]) :
                ot \in Orders(DOMAIN t.errorsByType), oi \in Orders(DOMAIN t.errorsByIP)}

\* body of the test errors block after a fetch without error: the total,
\* then each map in an unspecified order
TestErrorsOutcomes(resp) ==
    IF resp.isNil THEN {Panicked(<<>>)}
    ELSE LET t == TestErrorTotals(resp)
         IN {Emitted(<<MustNewConstMetric(TestErrorTotalCountMetric, t.totalErrors, <<>>)>>
                     \o [i \in 1..Len(ot) |->
                            MustNewConstMetric(TestErrorByTypeMetric, t.errorsByType[ot[i]], <<ot[i]>>)]
                     \o [i \in 1..Len(oi) |->
                            MustNewConstMetric(TestErrorByIPCountMetric, t.errorsByIP[oi[i]], <<oi[i]>>)]) :
                ot \in Orders(DOMAIN t.errorsByType), oi \in Orders(DOMAIN t.errorsByIP)}

(***************************************************************************)
(* Alerts: AlertsResponse and its block of Collect.                        *)
(***************************************************************************)
AlertLevels == {"Critical", "Warning", "Info", "critical"}

\* Alert: Level.Name, Test and Node
Alerts ==
    {[Level |-> lv, TestID |-> t, TestName |-> "Test " \o Itoa(t), NodeID |-> 1,
      NodeName |-> NodeName(1)] : lv \in AlertLevels, t \in {1, 2}}

AlertsResp(err, isNil, hasData, alerts) ==
    [err |-> err, isNil |-> isNil, hasData |-> hasData, Alerts |-> alerts, Errors |-> <<>>]

AlertsErr == AlertsResp(TRUE, TRUE, FALSE, <<>>)

AlertsRef ==
    AlertsResp(FALSE, FALSE, TRUE,
        <<[Level |-> "Critical", TestID |-> 1, TestName |-> "Test 1", NodeID |-> 1,
           NodeName |-> "Node 1"],
          [Level |-> "Warning", TestID |-> 2, TestName |-> "Test 2", NodeID |-> 1,
           NodeName |-> "Node 1"]>>)

AlertsFull ==
    {AlertsErr, AlertsResp(FALSE, TRUE, FALSE, <<>>), AlertsResp(FALSE, FALSE, FALSE, <<>>)}
    \cup {AlertsResp(FALSE, FALSE, TRUE, l) : l \in SeqUpTo(Alerts, MaxItems)}

AlertLabels(alert) ==
    <<Itoa(alert.TestID), alert.TestName, Itoa(alert.NodeID), alert.NodeName>>

\* a level match that ignores the case of the first letter
AlertObsAnyCase(alert) ==
    IF alert.Level \in {"Critical", "critical"}
    THEN <<MustNewConstMetric(TestAlertsCriticalTotalMetric, 1, AlertLabels(alert))>>
    ELSE IF alert.Level \in {"Warning", "warning"}
         THEN <<MustNewConstMetric(TestAlertsWarningTotalMetric, 1, AlertLabels(alert))>>
         ELSE <<>>

\* the observations of one alert
AlertObs(alert) ==
    IF alert.Level = "Critical"
    THEN <<MustNewConstMetric(TestAlertsCriticalTotalMetric, 1, AlertLabels(alert))>>
    ELSE IF alert.Level = "Warning"
         THEN <<MustNewConstMetric(TestAlertsWarningTotalMetric, 1, AlertLabels(alert))>>
         ELSE <<>>

\* body of the alerts block after a fetch without error
AlertsOutcomes(resp) ==
    IF resp.isNil \/ ~resp.hasData THEN {Panicked(<<>>)}
    ELSE {Emitted(Flatten([i \in 1..Len(resp.Alerts) |-> AlertObs(resp.Alerts[i])]))}

(***************************************************************************)
(* Test runs: NodeTestRunResponse and the test runs loop of Collect.       *)
(***************************************************************************)
TestRuns ==
    {[TestName |-> "Test " \o Itoa(t), MonitorGroup |-> "Browser",
      UsagePercentage |-> u, DownTimePercentage |-> 5] : t \in {1, 2}, u \in {75, 50}}

TestRunsResp(err, isNil, hasData, runs) ==
    [err |-> err, isNil |-> isNil, hasData |-> hasData, TestRuns |-> runs, Errors |-> <<>>]

TestRunsErr == TestRunsResp(TRUE, TRUE, FALSE, <<>>)

TestRunsRef ==
    TestRunsResp(FALSE, FALSE, TRUE,
        <<[TestName |-> "Test 1", MonitorGroup |-> "Browser", UsagePercentage |-> 75,
           DownTimePercentage |-> 5]>>)

TestRunsFull ==
    {TestRunsErr, TestRunsResp(FALSE, TRUE, FALSE, <<>>), TestRunsResp(FALSE, FALSE, FALSE, <<>>)}
    \cup {TestRunsResp(FALSE, FALSE, TRUE, l) : l \in SeqUpTo(TestRuns, MaxItems)}

TestRunLabelValues(nodeId, testRun) == <<Itoa(nodeId), testRun.TestName, testRun.MonitorGroup>>

\* a test run entry reported by its usage only
TestRunObsUsageOnly(nodeId, testRun) ==
    <<MustNewConstMetric(TestUsagePercentageMetric, testRun.UsagePercentage,
                         TestRunLabelValues(nodeId, testRun))>>

\* the two observations of one test run entry
TestRunObs(nodeId, testRun) ==
    <<MustNewConstMetric(TestUsagePercentageMetric, testRun.UsagePercentage,
                         TestRunLabelValues(nodeId, testRun)),
      MustNewConstMetric(TestDownTimePercentageMetric, testRun.DownTimePercentage,
                         TestRunLabelValues(nodeId, testRun))>>

\* body of the test runs loop after a fetch without error
TestRunsOutcomes(resp, nodeId) ==
    IF resp.isNil \/ ~resp.hasData THEN {Panicked(<<>>)}
    ELSE {Emitted(Flatten([i \in 1..Len(resp.TestRuns) |-> TestRunObs(nodeId, resp.TestRuns[i])]))}

(***************************************************************************)
(* Run rate: NodeRunRateResponse and the run rate loop of Collect.         *)
(***************************************************************************)
\* values of the TimeValue samples
SampleValues == {95, 100}

RunRateResp(err, isNil, hasData, id, slippages, rates) ==
    [err |-> err, isNil |-> isNil, hasData |-> hasData, NodeID |-> id,
     NodeName |-> NodeName(id), RequestSlippages |-> slippages, RunRates |-> rates,
     Errors |-> <<>>]

RunRateErr == RunRateResp(TRUE, TRUE, FALSE, 0, <<>>, <<>>)

RunRateRef(n) == RunRateResp(FALSE, FALSE, TRUE, n, <<100>>, <<95>>)

RunRateFull(n) ==
    {RunRateErr, RunRateResp(FALSE, TRUE, FALSE, 0, <<>>, <<>>),
     RunRateResp(FALSE, FALSE, FALSE, 0, <<>>, <<>>)}
    \cup {RunRateResp(FALSE, FALSE, TRUE, n, s, r) :
            s \in SeqUpTo(SampleValues, MaxItems), r \in SeqUpTo(SampleValues, MaxItems)}

\* observations built from the first sample of each sequence
RunRateOutcomesFirstSample(resp) ==
    IF resp.isNil \/ ~resp.hasData THEN {Panicked(<<>>)}
    ELSE IF Len(resp.RequestSlippages) = 0 THEN {Panicked(<<>>)}
    ELSE LET slippage ==
                 MustNewConstMetric(TestRequestSlippageMetric, resp.RequestSlippages[1],
                                    <<Itoa(resp.NodeID), resp.NodeName>>)
         IN IF Len(resp.RunRates) = 0 THEN {Panicked(<<slippage>>)}
            ELSE {Emitted(<<slippage,
                            MustNewConstMetric(TestRunRateMetric, resp.RunRates[1],
                                               <<Itoa(resp.NodeID), resp.NodeName>>)>>)}

\* body of the run rate loop after a fetch without error: each observation is
\* built from the last sample, the slippage one first
RunRateOutcomes(resp) ==
    IF resp.isNil \/ ~resp.hasData THEN {Panicked(<<>>)}
    ELSE IF Len(resp.RequestSlippages) = 0 THEN {Panicked(<<>>)}
    ELSE LET slippage ==
                 MustNewConstMetric(TestRequestSlippageMetric, Last(resp.RequestSlippages),
                                    <<Itoa(resp.NodeID), resp.NodeName>>)
         IN IF Len(resp.RunRates) = 0 THEN {Panicked(<<slippage>>)}
            ELSE {Emitted(<<slippage,
                            MustNewConstMetric(TestRunRateMetric, Last(resp.RunRates),
                                               <<Itoa(resp.NodeID), resp.NodeName>>)>>)}

(***************************************************************************)
(* Test run count: TestRunCountResponse and the last loop of Collect.      *)
(***************************************************************************)
\* MonitorData is represented by the values of its Data samples
Buckets == {<<>>, <<25>>, <<10, 25>>, <<25, 10>>}

RunCountResp(err, isNil, id, all, unique) ==
    [err |-> err, isNil |-> isNil, NodeID |-> id, NodeName |-> NodeName(id),
     AllTestRuns |-> all, UniqueTestRuns |-> unique, Errors |-> <<>>]

RunCountErr == RunCountResp(TRUE, TRUE, 0, <<>>, <<>>)

RunCountRef(n) == RunCountResp(FALSE, FALSE, n, <<<<25>>, <<10>>>>, <<<<25>>>>)

RunCountFull(n) ==
    {RunCountErr, RunCountResp(FALSE, TRUE, 0, <<>>, <<>>)}
    \cup {RunCountResp(FALSE, FALSE, n, a, u) :
            a \in SeqUpTo(Buckets, MaxItems), u \in SeqUpTo(Buckets, MaxItems)}

\* a total taken from the last all-test-runs bucket
RunCountOutcomesLastBucket(resp) ==
    IF resp.isNil THEN {Panicked(<<>>)}
    ELSE IF Len(resp.AllTestRuns) = 0 THEN {Emitted(<<>>)}
    ELSE IF Len(Last(resp.AllTestRuns)) = 0 THEN {Panicked(<<>>)}
    ELSE LET total ==
                 MustNewConstMetric(TotalTestRunsCountMetric, Last(Last(resp.AllTestRuns)),
                                    <<Itoa(resp.NodeID), resp.NodeName>>)
         IN IF Len(resp.UniqueTestRuns) > 0 /\ Len(resp.UniqueTestRuns[1]) > 0
            THEN {Emitted(<<total,
                            MustNewConstMetric(UniqueTestRunsCountMetric,
                                               Last(resp.UniqueTestRuns[1]),
                                               <<Itoa(resp.NodeID), resp.NodeName>>)>>)}
            ELSE {Emitted(<<total>>)}

\* body of the test run count loop after a fetch without error
RunCountOutcomes(resp) ==
    IF resp.isNil THEN {Panicked(<<>>)}
    ELSE IF Len(resp.AllTestRuns) = 0 THEN {Emitted(<<>>)}
    ELSE IF Len(resp.AllTestRuns[1]) = 0 THEN {Panicked(<<>>)}
    ELSE LET total ==
                 MustNewConstMetric(TotalTestRunsCountMetric, Last(resp.AllTestRuns[1]),
                                    <<Itoa(resp.NodeID), resp.NodeName>>)
         IN IF Len(resp.UniqueTestRuns) > 0 /\ Len(resp.UniqueTestRuns[1]) > 0
            THEN {Emitted(<<total,
                            MustNewConstMetric(UniqueTestRunsCountMetric,
                                               Last(resp.UniqueTestRuns[1]),
                                               <<Itoa(resp.NodeID), resp.NodeName>>)>>)}
            ELSE {Emitted(<<total>>)}

(***************************************************************************)
(* The scrape.                                                             *)
(***************************************************************************)
VARIABLES
    hasConfig,  \* c.Config != nil
    hasClient,  \* c.client != nil
    NodeIds,    \* c.Config.NodeIds
    focus,      \* the resource whose stub answers from its full response set
    focusIdx,   \* for a per-node resource, the loop iteration that does so
    pc,         \* position of Collect: "start", the fetch about to be made,
                \* "up", "done", "returned" (nil guard) or "panicked"
    idx,        \* index into NodeIds of the running loop
    ch,         \* the observations sent on the channel, in order
    calls,      \* the fetch calls made, with the response each received
    client,     \* the last fetch made through CatchpointClient, with its result
    scrapes,    \* the Collect invocations that run concurrently, one record each
    acc         \* the running totals and group-by maps of those invocations

vars ==
    <<hasConfig, hasClient, NodeIds, focus, focusIdx, pc, idx, ch, calls, client, scrapes, acc>>

\* the error outcome, the reference payload and every response of a fetch
ErrOf(kind) ==
    CASE kind = KNodeStatus -> NodeStatusErr
      [] kind = KSLA -> SLAErr
      [] kind = KTestErrors -> TestErrorsErr
      [] kind = KAlerts -> AlertsErr
      [] kind = KTestRuns -> TestRunsErr
      [] kind = KRunRate -> RunRateErr
      [] kind = KRunCount -> RunCountErr

RefOf(kind, n) ==
    CASE kind = KNodeStatus -> NodeStatusRef(n)
      [] kind = KSLA -> SLARef
      [] kind = KTestErrors -> TestErrorsRef
      [] kind = KAlerts -> AlertsRef
      [] kind = KTestRuns -> TestRunsRef
      [] kind = KRunRate -> RunRateRef(n)
      [] kind = KRunCount -> RunCountRef(n)

\* a decoded envelope whose "errors" list is not empty
WithErrors(resp) == [resp EXCEPT !.Errors = <<"No error">>]

FullOf(kind, n) ==
    {WithErrors(RefOf(kind, n))}
    \cup CASE kind = KNodeStatus -> NodeStatusFull
           [] kind = KSLA -> SLAFull
           [] kind = KTestErrors -> TestErrorsFull
           [] kind = KAlerts -> AlertsFull
           [] kind = KTestRuns -> TestRunsFull
           [] kind = KRunRate -> RunRateFull(n)
           [] kind = KRunCount -> RunCountFull(n)

\* what the fetch capability may answer to the call of `kind` made in loop
\* iteration i for node n: without a focus every call fails or returns the
\* reference payload; with a focus the focused call returns any response,
\* the other calls of that resource fail or return the reference payload,
\* and the other resources return the reference payload
Responses(kind, n, i) ==
    IF focus = "none" THEN {ErrOf(kind), RefOf(kind, n)}
    ELSE IF focus # kind THEN {RefOf(kind, n)}
    ELSE IF kind \notin PerNode \/ i = focusIdx THEN FullOf(kind, n)
    ELSE {ErrOf(kind), RefOf(kind, n)}

\* normalisation and emission that follow a fetch without error
Outcomes(kind, resp, n) ==
    CASE kind = KNodeStatus -> NodeStatusOutcomes(resp, n)
      [] kind = KSLA -> SLAOutcomes(resp)
      [] kind = KTestErrors -> TestErrorsOutcomes(resp)
      [] kind = KAlerts -> AlertsOutcomes(resp)
      [] kind = KTestRuns -> TestRunsOutcomes(resp, n)
      [] kind = KRunRate -> RunRateOutcomes(resp)
      [] kind = KRunCount -> RunCountOutcomes(resp)

\* a Collect that fetches the test errors before the SLA items
SuccErrorsFirst(phase) ==
    CASE phase = KNodeStatus -> KTestErrors
      [] phase = KTestErrors -> KSLA
      [] phase = KSLA -> KAlerts
      [] phase = KAlerts -> KTestRuns
      [] phase = KTestRuns -> KRunRate
      [] phase = KRunRate -> KRunCount
      [] phase = KRunCount -> "up"

\* the statement order of Collect
Succ(phase) ==
    CASE phase = KNodeStatus -> KSLA
      [] phase = KSLA -> KTestErrors
      [] phase = KTestErrors -> KAlerts
      [] phase = KAlerts -> KTestRuns
      [] phase = KTestRuns -> KRunRate
      [] phase = KRunRate -> KRunCount
      [] phase = KRunCount -> "up"

\* a loop over no node ids is skipped
RECURSIVE Enter(_, _)
Enter(phase, ids) ==
    IF phase \in PerNode /\ Len(ids) = 0 THEN Enter(Succ(phase), ids) ELSE phase

\* a per-node phase grouped by node: the three fetches of a node, then the
\* next node
ContinueByNode(kind, i, ids) ==
    IF kind = KTestRuns THEN [pc |-> KRunRate, idx |-> i]
    ELSE IF kind = KRunRate THEN [pc |-> KRunCount, idx |-> i]
    ELSE IF kind = KRunCount
         THEN IF i < Len(ids) THEN [pc |-> KTestRuns, idx |-> i + 1]
              ELSE [pc |-> "up", idx |-> 1]
    ELSE IF kind \in PerNode /\ i < Len(ids)
         THEN [pc |-> kind, idx |-> i + 1]
         ELSE [pc |-> Enter(Succ(kind), ids), idx |-> 1]

\* where Collect goes after the handling of a fetch: the next iteration of
\* the loop, or the statement after the loop or block
Continue(kind, i, ids) ==
    IF kind \in PerNode /\ i < Len(ids)
    THEN [pc |-> kind, idx |-> i + 1]
    ELSE [pc |-> Enter(Succ(kind), ids), idx |-> 1]

\* a `break` in place of the `continue`: the rest of the loop is skipped
OnFetchErrorBreak(kind, i, ids) == [pc |-> Enter(Succ(kind), ids), idx |-> 1]

\* err != nil: log and `continue` (loops) or fall out of the else (blocks)
OnFetchError(kind, i, ids) == Continue(kind, i, ids)

\* a failed node status fetch reported with the "no_data" sentinel
ErrorObsSentinel(kind, n) == IF kind = KNodeStatus THEN <<NoDataNodeObs(n)>> ELSE <<>>

\* what Collect sends on the channel for a failed fetch: it only logs
ErrorObs(kind, n) == <<>>

\* RateLimiter.Wait: sleeps for the configured delay, then returns
Wait(waited, delay) == Append(waited, delay)

\* the waits Collect makes before a fetch: it never calls RateLimiter.Wait
WaitsBefore(kind) == <<>>

\* the node a call is made for (0 for the three fetches made once)
NodeOf(kind, i, ids) == IF kind \in PerNode THEN ids[i] ELSE 0

Init ==
    /\ hasConfig \in BOOLEAN
    /\ hasClient \in BOOLEAN
    /\ NodeIds \in IF hasConfig /\ hasClient THEN SeqUpTo(NodeIdSet, MaxNodes) ELSE {<<>>}
    /\ focus \in IF hasConfig /\ hasClient THEN {"none"} \cup Resources ELSE {"none"}
    /\ focusIdx \in IF focus \in PerNode /\ Len(NodeIds) > 0 THEN 1..Len(NodeIds) ELSE {1}
    /\ pc = "start"
    /\ idx = 1
    /\ ch = <<>>
    /\ calls = <<>>
    /\ client = [pc |-> "idle"]
    /\ scrapes = <<>>
    /\ acc = <<>>

\* a Collect without the nil guard
StartUnguarded ==
    /\ pc = "start"
    /\ pc' = Enter(KNodeStatus, NodeIds)
    /\ UNCHANGED <<hasConfig, hasClient, NodeIds, focus, focusIdx, idx, ch, calls>>
    /\ UNCHANGED <<client, scrapes, acc>>

\* the nil guard at the head of Collect
Start ==
    /\ pc = "start"
    /\ pc' = IF ~hasConfig \/ ~hasClient THEN "returned" ELSE Enter(KNodeStatus, NodeIds)
    /\ UNCHANGED <<hasConfig, hasClient, NodeIds, focus, focusIdx, idx, ch, calls>>
    /\ UNCHANGED <<client, scrapes, acc>>

\* one fetch of `kind` and everything Collect does with its result
FetchStep(kind) ==
    /\ pc = kind
    /\ LET n == NodeOf(kind, idx, NodeIds)
       IN \E resp \in Responses(kind, n, idx) :
            /\ calls' = Append(calls, [kind |-> kind, node |-> n, resp |-> resp, lo |-> Len(ch),
                                    waited |-> WaitsBefore(kind)])
            /\ IF resp.err
               THEN /\ ch' = ch \o ErrorObs(kind, n)
                    /\ pc' = OnFetchError(kind, idx, NodeIds).pc
                    /\ idx' = OnFetchError(kind, idx, NodeIds).idx
               ELSE \E out \in Outcomes(kind, resp, n) :
                        /\ ch' = ch \o out.obs
                        /\ pc' = IF out.panic THEN "panicked" ELSE Continue(kind, idx, NodeIds).pc
                        /\ idx' = IF out.panic THEN idx ELSE Continue(kind, idx, NodeIds).idx
    /\ UNCHANGED <<hasConfig, hasClient, NodeIds, focus, focusIdx, client, scrapes, acc>>

FetchNodeStatus == FetchStep(KNodeStatus)
FetchSLAPurgeItems == FetchStep(KSLA)
FetchTestErrorsRaw == FetchStep(KTestErrors)
FetchAlerts == FetchStep(KAlerts)
FetchNodeTestRuns == FetchStep(KTestRuns)
FetchNodeRunRate == FetchStep(KRunRate)
FetchNodeTestRunCount == FetchStep(KRunCount)

\* an up that reports failed fetches
UpValueOnFailure == IF \E i \in 1..Len(calls) : calls[i].resp.err THEN 0 ELSE 1

\* up := 1.0 is never reassigned
UpValue == 1

\* an up that counts the scrapes made with the collector
EmitUpCountingScrapes ==
    /\ pc = "up"
    /\ ch' = Append(ch, MustNewConstMetric(UpMetric, UpValue + Len(scrapes), <<>>))
    /\ pc' = "done"
    /\ UNCHANGED <<hasConfig, hasClient, NodeIds, focus, focusIdx, idx, calls>>
    /\ UNCHANGED <<client, scrapes, acc>>

\* the last statement of Collect
EmitUp ==
    /\ pc = "up"
    /\ ch' = Append(ch, MustNewConstMetric(UpMetric, UpValue, <<>>))
    /\ pc' = "done"
    /\ UNCHANGED <<hasConfig, hasClient, NodeIds, focus, focusIdx, idx, calls>>
    /\ UNCHANGED <<client, scrapes, acc>>

Next ==
    \/ Start
    \/ FetchNodeStatus
    \/ FetchSLAPurgeItems
    \/ FetchTestErrorsRaw
    \/ FetchAlerts
    \/ FetchNodeTestRuns
    \/ FetchNodeRunRate
    \/ FetchNodeTestRunCount
    \/ EmitUp

Spec == Init /\ [][Next]_vars

\* the same scrape with the focus fixed
InitFocus(f) == Init /\ focus = f
InitBasic == InitFocus("none")
InitNodeStatus == InitFocus(KNodeStatus)
InitSLA == InitFocus(KSLA)
InitTestErrors == InitFocus(KTestErrors)
InitAlerts == InitFocus(KAlerts)

SpecBasic == InitBasic /\ [][Next]_vars
SpecNodeStatus == InitNodeStatus /\ [][Next]_vars
SpecSLA == InitSLA /\ [][Next]_vars
SpecTestErrors == InitTestErrors /\ [][Next]_vars
SpecAlerts == InitAlerts /\ [][Next]_vars

InitRunRate == InitFocus(KRunRate)
InitRunCount == InitFocus(KRunCount)
SpecRunRate == InitRunRate /\ [][Next]_vars
SpecRunCount == InitRunCount /\ [][Next]_vars

\* the test errors block does not read the node ids: one node at most
InitTestErrorsOneNode == InitTestErrors /\ Len(NodeIds) <= 1
SpecTestErrorsOneNode == InitTestErrorsOneNode /\ [][Next]_vars

InitTestRuns == InitFocus(KTestRuns)
SpecTestRuns == InitTestRuns /\ [][Next]_vars

\* Collect runs on a goroutine of its own: it takes its next step as long as
\* it has one
FairSpecRunCount == SpecRunCount /\ WF_vars(Next)

(***************************************************************************)
(* Reading a state: the observations of one fetch, counts per family.      *)
(***************************************************************************)
Started == hasConfig /\ hasClient /\ pc # "start"

\* the observations sent while the i-th call was handled
SegHi(i) ==
    IF i < Len(calls) THEN calls[i + 1].lo
    ELSE IF pc = "done" THEN Len(ch) - 1 ELSE Len(ch)

Seg(i) == SubSeq(ch, calls[i].lo + 1, SegHi(i))

OfFamily(obs, fam) == SelectSeq(obs, LAMBDA o : o.m = fam)

Failed(i) == calls[i].resp.err

\* the calls a scrape over ids makes when none of them stops it
PerNodeSlots(kind, ids) == [i \in 1..Len(ids) |-> [kind |-> kind, node |-> ids[i]]]

Schedule(ids) ==
    PerNodeSlots(KNodeStatus, ids)
    \o <<[kind |-> KSLA, node |-> 0], [kind |-> KTestErrors, node |-> 0],
         [kind |-> KAlerts, node |-> 0]>>
    \o PerNodeSlots(KTestRuns, ids) \o PerNodeSlots(KRunRate, ids)
    \o PerNodeSlots(KRunCount, ids)

\* the observations of a call answered with the reference payload
RefObs(kind, n) == (CHOOSE o \in Outcomes(kind, RefOf(kind, n), n) : TRUE).obs

UpObs == [m |-> UpMetric, l |-> <<>>, v |-> 1]

AllFailed == \A i \in 1..Len(calls) : Failed(i)

C3_FaultIsolation ==
    (Started /\ pc = "done") =>
        /\ [k \in 1..Len(calls) |-> [kind |-> calls[k].kind, node |-> calls[k].node]]
               = Schedule(NodeIds)
        /\ \A k \in 1..Len(calls) :
              Seg(k) = IF Failed(k) THEN <<>> ELSE RefObs(calls[k].kind, calls[k].node)
        /\ Last(ch) = UpObs

C3_Witness ==
    /\ pc = "done"
    /\ NodeIds = <<1, 2>>
    /\ Cardinality({i \in 1..Len(calls) : Failed(i)}) = 1
    /\ Failed(1)
    /\ OfFamily(ch, NodeStatusMetric) = <<NodeObs([Id |-> 2, Name |-> "Node 2", hasStatus |-> TRUE, StatusName |-> "active"])>>

(***************************************************************************)
(* C4.  As claimed, on the fetches that fail, that return no node list or  *)
(* that return one node record: every such node status fetch yields        *)
(* exactly one node status observation.                                    *)
(***************************************************************************)
CallsOf(kind) == {i \in 1..Len(calls) : calls[i].kind = kind}

\* a response that is a payload: no error, no nil pointer
Payload(i) == ~calls[i].resp.err /\ ~calls[i].resp.isNil

NoNodeList(r) == ~r.hasData \/ ~r.hasNodes

C5_NoRecordsSentinel ==
    \A i \in CallsOf(KNodeStatus) :
        (Payload(i) /\ (NoNodeList(calls[i].resp) \/ calls[i].resp.Nodes = <<>>)) =>
            Seg(i) = <<[m |-> NodeStatusMetric,
                        l |-> <<Itoa(calls[i].node), "no_data">>, v |-> 0]>>

(***************************************************************************)
(* C6.  An SLA fetch that succeeds without items (the item list absent, or *)
(* present and empty) yields the single observation sla count              *)
(* ("no_data") = 0.                                                        *)
(***************************************************************************)
C6_EmptySLASentinel ==
    \A i \in CallsOf(KSLA) :
        LET r == calls[i].resp
        IN (Payload(i) /\ (~r.hasData \/ ~r.hasItems \/ r.SLAItems = <<>>)) =>
               Seg(i) = <<[m |-> SLAPurgeItemsCountMetric, l |-> <<"no_data">>, v |-> 0]>>

(***************************************************************************)
(* C7.  No two observations of one scrape have the same metric family and  *)
(* the same label values.                                                  *)
(***************************************************************************)
C7_NoDuplicateLabels ==
    \A i, j \in 1..Len(ch) : (i # j /\ ch[i].m = ch[j].m) => ch[i].l # ch[j].l

(***************************************************************************)
(* C8.  A test errors fetch that succeeds yields one total observation,    *)
(* whose value is the sum of every value of every summary item of every    *)
(* response item, whatever the dimensions of the items.                    *)
(***************************************************************************)
RECURSIVE FnSum(_)
FnSum(f) ==
    IF DOMAIN f = {} THEN 0
    ELSE LET x == CHOOSE y \in DOMAIN f : TRUE
         IN f[x] + FnSum([z \in DOMAIN f \ {x} |-> f[z]])

\* positions <<response item, summary item, value>> of a test errors payload
ValuePositions(items) ==
    UNION {UNION {{<<a, b, c>> : c \in 1..Len(items[a][b].Values)} :
                     b \in 1..Len(items[a])} : a \in 1..Len(items)}

AllValuesSum(items) ==
    FnSum([q \in ValuePositions(items) |-> items[q[1]][q[2]].Values[q[3]]])

SeqValuesSum(obs) == FnSum([k \in 1..Len(obs) |-> obs[k].v])

C8_TotalIsSumOfValues ==
    \A i \in CallsOf(KTestErrors) :
        Payload(i) =>
            /\ Len(OfFamily(Seg(i), TestErrorTotalCountMetric)) = 1
            /\ OfFamily(Seg(i), TestErrorTotalCountMetric)[1].v
                   = AllValuesSum(calls[i].resp.ResponseItems)

C8_Witness ==
    \E i \in CallsOf(KTestErrors) :
        /\ Payload(i)
        /\ calls[i].resp.ResponseItems =
               <<<<[Values |-> <<2, 1>>, Dimensions |-> <<>>]>>,
                 <<[Values |-> <<1>>, Dimensions |-> <<<<"ErrorType", ":", "SSL">>>>]>>>>
        /\ OfFamily(Seg(i), TestErrorTotalCountMetric)[1].v = 4

(***************************************************************************)
(* C9.  In a scrape whose test errors fetch succeeds (all values are       *)
(* non-negative), the error-by-type values sum to at most the total, and   *)
(* so do the error-by-ip values.                                           *)
(***************************************************************************)
C9_GroupSumsBounded ==
    \A i \in CallsOf(KTestErrors) :
        Payload(i) =>
            /\ SeqValuesSum(OfFamily(Seg(i), TestErrorByTypeMetric))
                   <= SeqValuesSum(OfFamily(Seg(i), TestErrorTotalCountMetric))
            /\ SeqValuesSum(OfFamily(Seg(i), TestErrorByIPCountMetric))
                   <= SeqValuesSum(OfFamily(Seg(i), TestErrorTotalCountMetric))

(***************************************************************************)
(* C10.  An alerts fetch that succeeds yields, for each alert of level     *)
(* exactly "Critical", one critical-alert observation of value 1, for each *)
(* alert of level exactly "Warning" one warning-alert observation of value *)
(* 1, each labelled by the alert's test id, test name, node id and node    *)
(* name, and nothing for an alert of any other level.                      *)
(***************************************************************************)
AlertLabelSets == {AlertLabels(a) : a \in Alerts}

CountAlerts(alerts, level, labels) ==
    Cardinality({k \in 1..Len(alerts) :
        /\ alerts[k].Level = level
        /\ <<Itoa(alerts[k].TestID), alerts[k].TestName, Itoa(alerts[k].NodeID),
             alerts[k].NodeName>> = labels})

CountObs(obs, fam, labels) ==
    Cardinality({k \in 1..Len(obs) : obs[k].m = fam /\ obs[k].l = labels})

C10_AlertsByLevel ==
    \A i \in CallsOf(KAlerts) :
        (Payload(i) /\ calls[i].resp.hasData) =>
            LET alerts == calls[i].resp.Alerts
            IN /\ \A k \in 1..Len(Seg(i)) :
                     /\ Seg(i)[k].v = 1
                     /\ Seg(i)[k].m \in {TestAlertsCriticalTotalMetric, TestAlertsWarningTotalMetric}
                     /\ Seg(i)[k].l \in AlertLabelSets
               /\ \A labels \in AlertLabelSets :
                     /\ CountObs(Seg(i), TestAlertsCriticalTotalMetric, labels)
                            = CountAlerts(alerts, "Critical", labels)
                     /\ CountObs(Seg(i), TestAlertsWarningTotalMetric, labels)
                            = CountAlerts(alerts, "Warning", labels)

C10_Witness ==
    \E i \in CallsOf(KAlerts) :
        /\ Payload(i) /\ calls[i].resp.hasData
        /\ Len(calls[i].resp.Alerts) = 2
        /\ calls[i].resp.Alerts[1].Level = "critical"
        /\ calls[i].resp.Alerts[2].Level = "Warning"
        /\ Len(Seg(i)) = 1
        /\ Seg(i)[1].m = TestAlertsWarningTotalMetric

(***************************************************************************)
(* C11.  The scenario of the collector test: one configured node id, 1,    *)
(* and all seven fetches answered with the payloads of the mock client.    *)
(* The finished scrape has observations in all fourteen families, among    *)
(* them node status ("1", "Node 1") = 1, sla count ("Active") = 1, error   *)
(* total = 15, error by type DNS 6, Connection 4, SSL 3, NoResponse 2,     *)
(* four error-by-ip observations of values 6, 4, 3, 2, and up = 1 last.    *)
(***************************************************************************)
ScenarioPayload(kind, n) == IF kind = KTestErrors THEN TestErrorsMock ELSE RefOf(kind, n)

Scenario ==
    /\ Started /\ pc = "done" /\ NodeIds = <<1>>
    /\ \A i \in 1..Len(calls) : calls[i].resp = ScenarioPayload(calls[i].kind, calls[i].node)

ObsSet(obs) == {obs[k] : k \in 1..Len(obs)}

OnlyPayloads == \A i \in 1..Len(calls) : Failed(i) \/ Payload(i)

C12_GapsNeverCrash ==
    (Started /\ OnlyPayloads) =>
        /\ pc # "panicked"
        /\ pc = "done" => (Len(calls) = 4 * Len(NodeIds) + 3 /\ Last(ch) = UpObs)

(***************************************************************************)
(* C13.  A scrape on a collector without configuration or without client   *)
(* makes no fetch call and emits no observation, up included.              *)
(***************************************************************************)
C13_NilGuard ==
    (~hasConfig \/ ~hasClient) =>
        /\ calls = <<>>
        /\ ch = <<>>
        /\ pc \in {"start", "returned"}

C13_Witness == pc = "returned" /\ hasConfig /\ ~hasClient /\ calls = <<>> /\ ch = <<>>

(***************************************************************************)
(* C15.  The calls of a scrape are, whatever their outcomes, an initial    *)
(* part of one fixed sequence: the node status fetches in configured node  *)
(* order, then the SLA fetch, the test errors fetch, the alerts fetch, and *)
(* then the per-node test runs, run rate and test run count fetches.       *)
(***************************************************************************)
Rank(kind) ==
    CASE kind = KNodeStatus -> 1
      [] kind = KSLA -> 2
      [] kind = KTestErrors -> 3
      [] kind = KAlerts -> 4
      [] kind \in {KTestRuns, KRunRate, KRunCount} -> 5

\* the calls made so far, by operation and node
CallSlots == [k \in 1..Len(calls) |-> [kind |-> calls[k].kind, node |-> calls[k].node]]

C15_FixedCallOrder ==
    /\ Len(calls) <= 4 * Len(NodeIds) + 3
    /\ CallSlots = SubSeq(Schedule(NodeIds), 1, Len(calls))
    /\ \A i \in 1..(Len(calls) - 1) : Rank(calls[i].kind) <= Rank(calls[i + 1].kind)
    /\ \A i \in 1..Len(calls) : calls[i].kind = KNodeStatus => calls[i].node = NodeIds[i]

C15_Witness ==
    /\ pc = "done"
    /\ NodeIds = <<2, 1>>
    /\ Len(calls) = 11
    /\ Failed(1) /\ ~Failed(2) /\ Failed(3) /\ Failed(6)
    /\ calls[2].kind = KNodeStatus /\ calls[2].node = 1
    /\ calls[3].kind = KSLA /\ calls[5].kind = KAlerts
    /\ calls[6].kind = KTestRuns /\ calls[6].node = 2

(***************************************************************************)
(* C17.  A fetch whose response carries a vendor error list is handled as  *)
(* a failed fetch: none of its data becomes an observation.                *)
(***************************************************************************)
C17_VendorErrorsAreFailures ==
    \A i \in 1..Len(calls) :
        (Payload(i) /\ calls[i].resp.Errors # <<>>) => Seg(i) = <<>>

(***************************************************************************)
(* C18.  Every started scrape whose fetch calls all return (an error or a  *)
(* non-nil response) eventually finishes: it has then made exactly 4*N+3   *)
(* calls and up is its last observation.                                   *)
(***************************************************************************)
NilAnswered == \E i \in 1..Len(calls) : ~Failed(i) /\ calls[i].resp.isNil

C18_ScrapeCompletes ==
    Started ~> \/ NilAnswered
               \/ pc = "done" /\ Len(calls) = 4 * Len(NodeIds) + 3 /\ Last(ch) = UpObs

(***************************************************************************)
(* C19.  Every fetch of a scrape after the first is preceded by a          *)
(* completed RateLimiter.Wait since the fetch before it.                   *)
(***************************************************************************)
C19_PacedFetches == \A i \in 2..Len(calls) : calls[i].waited # <<>>

(***************************************************************************)
(* C20.  A run rate fetch that succeeds with an empty slippage or run rate *)
(* sample sequence does not stop the scrape: the remaining fetches are     *)
(* made, and the finished scrape holds the observations of every other     *)
(* run rate fetch and of every test run count fetch, and up.               *)
(***************************************************************************)
EmptySamples(i) ==
    /\ calls[i].kind = KRunRate /\ Payload(i) /\ calls[i].resp.hasData
    /\ (calls[i].resp.RequestSlippages = <<>> \/ calls[i].resp.RunRates = <<>>)

C20_EmptySamplesIsolated ==
    (\E i \in 1..Len(calls) : EmptySamples(i)) =>
        /\ pc # "panicked"
        /\ pc = "done" =>
              /\ \A k \in CallsOf(KRunRate) \cup CallsOf(KRunCount) :
                    (~Failed(k) /\ ~EmptySamples(k)) =>
                        Seg(k) = RefObs(calls[k].kind, calls[k].node)
              /\ Cardinality(CallsOf(KRunCount)) = Len(NodeIds)
              /\ Last(ch) = UpObs

(***************************************************************************)
(* CatchpointClient: one fetch operation over one HTTP exchange.           *)
(***************************************************************************)
\* the zero value of the response struct of a fetch operation
ZeroOf(kind) ==
    CASE kind = KNodeStatus -> NodeStatusResp(FALSE, FALSE, FALSE, FALSE, <<>>)
      [] kind = KSLA -> SLAResp(FALSE, FALSE, FALSE, FALSE, <<>>)
      [] kind = KTestErrors -> TestErrorsResp(FALSE, FALSE, <<>>)
      [] kind = KAlerts -> AlertsResp(FALSE, FALSE, FALSE, <<>>)
      [] kind = KTestRuns -> TestRunsResp(FALSE, FALSE, FALSE, <<>>)
      [] kind = KRunRate ->
            [RunRateResp(FALSE, FALSE, FALSE, 0, <<>>, <<>>) EXCEPT !.NodeName = ""]
      [] kind = KRunCount ->
            [RunCountResp(FALSE, FALSE, 0, <<>>, <<>>) EXCEPT !.NodeName = ""]

\* status codes of the upstream's answers
StatusCodes == {199, 200, 204, 299, 300, 404, 500}

\* a response body by what the JSON decoder makes of it: `invalid` does not
\* decode, `null` decodes and leaves the target as it is, an `object` decodes
\* to `value`, the envelope it spells
Bodies(kind, n) ==
    {[json |-> j, value |-> ZeroOf(kind)] : j \in {"invalid", "null"}}
    \cup {[json |-> "object", value |-> v] :
            v \in {ZeroOf(kind), WithErrors(ZeroOf(kind)), RefOf(kind, n),
                   WithErrors(RefOf(kind, n))}}

\* what HttpClient.Do returns: a transport error, or a response
Exchanges(kind, n) ==
    {[failed |-> TRUE, StatusCode |-> 0, body |-> [json |-> "invalid", value |-> ZeroOf(kind)]]}
    \cup {[failed |-> FALSE, StatusCode |-> c, body |-> b] :
            c \in StatusCodes, b \in Bodies(kind, n)}

\* error values; NoError is the nil error
NoError == [what |-> "nil", status |-> 0, messages |-> <<>>]
TransportError == [what |-> "transport", status |-> 0, messages |-> <<>>]
DecodeError == [what |-> "decode", status |-> 0, messages |-> <<>>]

\* a status check that lets informational and redirect answers through
parseAPIErrorResponseFrom400(resp) ==
    IF resp.StatusCode >= 400
    THEN IF resp.body.json # "invalid"
         THEN [what |-> "api", status |-> resp.StatusCode,
               messages |-> resp.body.value.Errors]
         ELSE [what |-> "api-unparsed", status |-> resp.StatusCode, messages |-> <<>>]
    ELSE NoError

parseAPIErrorResponse(resp) ==
    IF resp.StatusCode < 200 \/ resp.StatusCode > 299
    THEN IF resp.body.json # "invalid"
         THEN [what |-> "api", status |-> resp.StatusCode,
               messages |-> resp.body.value.Errors]
         ELSE [what |-> "api-unparsed", status |-> resp.StatusCode, messages |-> <<>>]
    ELSE NoError

\* doRequest with `result` the struct the body is decoded into
doRequest(exchange, result) ==
    IF exchange.failed THEN [err |-> TransportError, result |-> result]
    ELSE IF parseAPIErrorResponse(exchange) # NoError
         THEN [err |-> parseAPIErrorResponse(exchange), result |-> result]
         ELSE IF exchange.body.json = "invalid" THEN [err |-> DecodeError, result |-> result]
              ELSE IF exchange.body.json = "null" THEN [err |-> NoError, result |-> result]
                   ELSE [err |-> NoError, result |-> exchange.body.value]

\* the body shared by the seven fetch operations: (nil, err) or (&response, nil)
Fetch(kind, exchange) ==
    LET r == doRequest(exchange, ZeroOf(kind))
    IN IF r.err # NoError
       THEN [isNil |-> TRUE, value |-> ZeroOf(kind), err |-> r.err]
       ELSE [isNil |-> FALSE, value |-> r.result, err |-> NoError]

\* one call of a fetch operation of the client
ClientFetch(kind) ==
    /\ \E n \in (IF kind \in PerNode THEN NodeIdSet ELSE {0}) :
         \E x \in Exchanges(kind, n) :
            client' = [pc |-> "returned", kind |-> kind, node |-> n, http |-> x,
                       out |-> Fetch(kind, x)]
    /\ UNCHANGED <<hasConfig, hasClient, NodeIds, focus, focusIdx, pc, idx, ch, calls>>
    /\ UNCHANGED <<scrapes, acc>>

NextClient == \E kind \in Resources : ClientFetch(kind)

InitClient == Init /\ hasConfig /\ hasClient /\ NodeIds = <<>> /\ focus = "none"

SpecClient == InitClient /\ [][NextClient]_vars

(***************************************************************************)
(* C16.  A fetch operation of the client returns a non-nil response and no *)
(* error, or no response and an error, never both and never neither; an    *)
(* answer whose status is outside 200..299 gives the error.                *)
(***************************************************************************)
C16_PayloadXorError ==
    client.pc = "returned" =>
        /\ client.out.isNil <=> client.out.err # NoError
        /\ (~client.http.failed
              /\ (client.http.StatusCode < 200 \/ client.http.StatusCode > 299)) =>
                 /\ client.out.isNil
                 /\ client.out.err.what \in {"api", "api-unparsed"}
                 /\ client.out.err.status = client.http.StatusCode

C16_Witness ==
    /\ client.pc = "returned"
    /\ client.kind = KRunCount
    /\ ~client.http.failed /\ client.http.StatusCode = 300
    /\ client.http.body = [json |-> "object", value |-> RunCountRef(2)]
    /\ client.out.isNil /\ client.out.err.what = "api"

(***************************************************************************)
(* Concurrent scrapes: several invocations of Collect on one collector,    *)
(* each with its own channel.  The SLA block and the test errors block are *)
(* taken item by item, so that the invocations interleave while their      *)
(* counts and totals are being built.                                      *)
(***************************************************************************)
ScrapeIds == {1, 2}

\* what the fetch capability answers to the invocations
ConcurrentResponses(kind, n) ==
    CASE kind = KSLA ->
            {SLAErr, SLARef, SLAResp(FALSE, FALSE, TRUE, TRUE, <<"Expired", "">>)}
      [] kind = KTestErrors ->
            {TestErrorsErr, TestErrorsRef,
             TestErrorsResp(FALSE, FALSE,
                 <<<<[Values |-> <<2, 1>>,
                      Dimensions |-> <<<<"ErrorType", ":", "DNS">>, <<"ErrorType", ":", "SSL">>>>]>>,
                   <<SummaryItemOf(1, "DNS", "192.0.2.1")>>>>)}
      [] OTHER -> {RefOf(kind, n)}

\* countByStatus, totalErrors, errorsByType and errorsByIP of one invocation
NewLocals ==
    [countByStatus |-> EmptyMap, totalErrors |-> 0, errorsByType |-> EmptyMap,
     errorsByIP |-> EmptyMap]

\* locals kept in one place for all invocations
LocalsOfShared(s) == 1

\* the locals of invocation s are its own
LocalsOf(s) == s

Locals(s) == acc[LocalsOf(s)]

\* the calls of invocation s, with the fetch it is making appended
Called(s, kind, resp) ==
    Append(scrapes[s].calls,
           [kind |-> kind, node |-> NodeOf(kind, scrapes[s].idx, NodeIds), resp |-> resp,
            lo |-> Len(scrapes[s].ch), waited |-> WaitsBefore(kind)])

Goto(s, kind) == Continue(kind, scrapes[s].idx, NodeIds)

UnchangedConfig ==
    UNCHANGED <<hasConfig, hasClient, NodeIds, focus, focusIdx, pc, idx, ch, calls, client>>

CollectStart(s) ==
    /\ scrapes[s].pc = "start"
    /\ scrapes' = [scrapes EXCEPT ![s].pc =
                      IF ~hasConfig \/ ~hasClient THEN "returned"
                      ELSE Enter(KNodeStatus, NodeIds)]
    /\ UNCHANGED acc
    /\ UnchangedConfig

\* a fetch other than the SLA and test errors ones, with what follows it
CollectFetch(s) ==
    LET kind == scrapes[s].pc
        n == NodeOf(kind, scrapes[s].idx, NodeIds)
    IN /\ kind \in Resources \ {KSLA, KTestErrors}
       /\ \E resp \in ConcurrentResponses(kind, n) :
            IF resp.err
            THEN scrapes' = [scrapes EXCEPT ![s].calls = Called(s, kind, resp),
                                            ![s].pc = Goto(s, kind).pc,
                                            ![s].idx = Goto(s, kind).idx]
            ELSE \E out \in Outcomes(kind, resp, n) :
                    scrapes' = [scrapes EXCEPT
                                   ![s].calls = Called(s, kind, resp),
                                   ![s].ch = @ \o out.obs,
                                   ![s].pc = IF out.panic THEN "panicked" ELSE Goto(s, kind).pc,
                                   ![s].idx = IF out.panic THEN @ ELSE Goto(s, kind).idx]
       /\ UNCHANGED acc
       /\ UnchangedConfig

\* FetchSLAPurgeItems and countByStatus := make(...)
CollectFetchSLA(s) ==
    /\ scrapes[s].pc = KSLA
    /\ \E resp \in ConcurrentResponses(KSLA, 0) :
         IF resp.err
         THEN /\ scrapes' = [scrapes EXCEPT ![s].calls = Called(s, KSLA, resp),
                                            ![s].pc = Goto(s, KSLA).pc]
              /\ UNCHANGED acc
         ELSE IF resp.isNil
         THEN /\ scrapes' = [scrapes EXCEPT ![s].calls = Called(s, KSLA, resp),
                                            ![s].pc = "panicked"]
              /\ UNCHANGED acc
         ELSE IF resp.hasData /\ resp.hasItems
         THEN /\ scrapes' = [scrapes EXCEPT ![s].calls = Called(s, KSLA, resp),
                                            ![s].cur = resp.SLAItems,
                                            ![s].pc = "countSLA"]
              /\ acc' = [acc EXCEPT ![LocalsOf(s)].countByStatus = EmptyMap]
         ELSE /\ scrapes' = [scrapes EXCEPT ![s].calls = Called(s, KSLA, resp),
                                            ![s].ch = Append(@, NoDataSLAObs),
                                            ![s].pc = Goto(s, KSLA).pc]
              /\ UNCHANGED acc
    /\ UnchangedConfig

\* one iteration of the loop over the SLA items
CountSLAItem(s) ==
    /\ scrapes[s].pc = "countSLA"
    /\ scrapes[s].cur # <<>>
    /\ acc' = [acc EXCEPT ![LocalsOf(s)].countByStatus =
                  IF Head(scrapes[s].cur) # "" THEN MapAdd(@, Head(scrapes[s].cur), 1) ELSE @]
    /\ scrapes' = [scrapes EXCEPT ![s].cur = Tail(@)]
    /\ UnchangedConfig

\* the loop over countByStatus
EmitSLACounts(s) ==
    /\ scrapes[s].pc = "countSLA"
    /\ scrapes[s].cur = <<>>
    /\ \E o \in Orders(DOMAIN Locals(s).countByStatus) :
         scrapes' = [scrapes EXCEPT
                        ![s].ch = @ \o [i \in 1..Len(o) |-> SLAObs(o[i], Locals(s).countByStatus[o[i]])],
                        ![s].pc = Goto(s, KSLA).pc]
    /\ UNCHANGED acc
    /\ UnchangedConfig

\* FetchTestErrorsRaw and the declarations of the total and the two maps
CollectFetchTestErrors(s) ==
    /\ scrapes[s].pc = KTestErrors
    /\ \E resp \in ConcurrentResponses(KTestErrors, 0) :
         IF resp.err
         THEN /\ scrapes' = [scrapes EXCEPT ![s].calls = Called(s, KTestErrors, resp),
                                            ![s].pc = Goto(s, KTestErrors).pc]
              /\ UNCHANGED acc
         ELSE /\ acc' = [acc EXCEPT ![LocalsOf(s)].totalErrors = 0,
                                    ![LocalsOf(s)].errorsByType = EmptyMap,
                                    ![LocalsOf(s)].errorsByIP = EmptyMap]
              /\ scrapes' = [scrapes EXCEPT
                                ![s].calls = Called(s, KTestErrors, resp),
                                ![s].cur = IF resp.isNil THEN <<>> ELSE Flatten(resp.ResponseItems),
                                ![s].pc = IF resp.isNil THEN "panicked" ELSE "sumErrors"]
    /\ UnchangedConfig

\* one iteration of the loop over the summary items
AddSummaryItem(s) ==
    /\ scrapes[s].pc = "sumErrors"
    /\ scrapes[s].cur # <<>>
    /\ acc' = [acc EXCEPT ![LocalsOf(s)] = AddSummary(@, Head(scrapes[s].cur))]
    /\ scrapes' = [scrapes EXCEPT ![s].cur = Tail(@)]
    /\ UnchangedConfig

\* the total, then the loops over errorsByType and errorsByIP
EmitTestErrors(s) ==
    /\ scrapes[s].pc = "sumErrors"
    /\ scrapes[s].cur = <<>>
    /\ LET t == Locals(s)
       IN \E ot \in Orders(DOMAIN t.errorsByType), oi \in Orders(DOMAIN t.errorsByIP) :
            scrapes' = [scrapes EXCEPT
                ![s].ch = @ \o <<MustNewConstMetric(TestErrorTotalCountMetric, t.totalErrors, <<>>)>>
                            \o [i \in 1..Len(ot) |->
                                   MustNewConstMetric(TestErrorByTypeMetric, t.errorsByType[ot[i]], <<ot[i]>>)]
                            \o [i \in 1..Len(oi) |->
                                   MustNewConstMetric(TestErrorByIPCountMetric, t.errorsByIP[oi[i]], <<oi[i]>>)],
                ![s].pc = Goto(s, KTestErrors).pc]
    /\ UNCHANGED acc
    /\ UnchangedConfig

CollectEmitUp(s) ==
    /\ scrapes[s].pc = "up"
    /\ scrapes' = [scrapes EXCEPT ![s].ch = Append(@, MustNewConstMetric(UpMetric, UpValue, <<>>)),
                                  ![s].pc = "done"]
    /\ UNCHANGED acc
    /\ UnchangedConfig

NextConcurrent ==
    \E s \in ScrapeIds :
        \/ CollectStart(s)
        \/ CollectFetch(s)
        \/ CollectFetchSLA(s)
        \/ CountSLAItem(s)
        \/ EmitSLACounts(s)
        \/ CollectFetchTestErrors(s)
        \/ AddSummaryItem(s)
        \/ EmitTestErrors(s)
        \/ CollectEmitUp(s)

InitConcurrent ==
    /\ hasConfig = TRUE
    /\ hasClient = TRUE
    /\ NodeIds \in {<<>>, <<1>>}
    /\ focus = "none"
    /\ focusIdx = 1
    /\ pc = "start"
    /\ idx = 1
    /\ ch = <<>>
    /\ calls = <<>>
    /\ client = [pc |-> "idle"]
    /\ scrapes = [s \in ScrapeIds |->
                     [pc |-> "start", idx |-> 1, ch |-> <<>>, calls |-> <<>>, cur |-> <<>>]]
    /\ acc = [s \in ScrapeIds |-> NewLocals]

SpecConcurrent == InitConcurrent /\ [][NextConcurrent]_vars

(***************************************************************************)
(* C14.  Under every interleaving of two invocations of Collect, each      *)
(* invocation sends, for each of its fetches, the observations that the    *)
(* response it received gives when handled on its own, and finishes with   *)
(* all its calls made and up last.                                         *)
(***************************************************************************)
\* the observations of a response handled on its own
AloneObs(call) ==
    IF call.resp.err THEN {<<>>}
    ELSE {o.obs : o \in Outcomes(call.kind, call.resp, call.node)}

\* the i-th call of invocation s is past its emissions
Handled(s, i) == i < Len(scrapes[s].calls) \/ scrapes[s].pc \notin {"countSLA", "sumErrors"}

SegOf(s, i) ==
    LET r == scrapes[s]
        hi == IF i < Len(r.calls) THEN r.calls[i + 1].lo
              ELSE IF r.pc = "done" THEN Len(r.ch) - 1 ELSE Len(r.ch)
    IN SubSeq(r.ch, r.calls[i].lo + 1, hi)

C14_ScrapesDoNotInterfere ==
    \A s \in DOMAIN scrapes :
        /\ \A i \in 1..Len(scrapes[s].calls) :
              Handled(s, i) => SegOf(s, i) \in AloneObs(scrapes[s].calls[i])
        /\ scrapes[s].pc = "done" =>
              /\ Len(scrapes[s].calls) = 4 * Len(NodeIds) + 3
              /\ Last(scrapes[s].ch) = UpObs

C14_Witness ==
    /\ scrapes[1].pc = "sumErrors" /\ scrapes[2].pc = "sumErrors"
    /\ Len(scrapes[1].cur) = 1 /\ Len(scrapes[2].cur) = 1
    /\ acc[1].totalErrors = 3 /\ acc[2].totalErrors = 3
    /\ Len(OfFamily(scrapes[1].ch, SLAPurgeItemsCountMetric)) = 1
    /\ Len(OfFamily(scrapes[2].ch, SLAPurgeItemsCountMetric)) = 0

(***************************************************************************)
(* C21.  As claimed, on the test run count fetches that do not stop the    *)
(* scrape: the fetch yields a unique-test-runs observation if and only if  *)
(* it succeeds with a first unique-test-runs bucket that has samples, be   *)
(* the all-test-runs bucket list empty or not.                             *)
(***************************************************************************)
HasUniqueSamples(r) == Len(r.UniqueTestRuns) > 0 /\ Len(r.UniqueTestRuns[1]) > 0

\* the first all-test-runs bucket is there without a sample
EmptyFirstBucket(r) == Len(r.AllTestRuns) > 0 /\ Len(r.AllTestRuns[1]) = 0

C21_UniqueIffBucket ==
    \A i \in CallsOf(KRunCount) :
        /\ Failed(i) => Len(OfFamily(Seg(i), UniqueTestRunsCountMetric)) = 0
        /\ (Payload(i) /\ ~EmptyFirstBucket(calls[i].resp)) =>
              (Len(OfFamily(Seg(i), UniqueTestRunsCountMetric)) = 1
                  <=> HasUniqueSamples(calls[i].resp))

(***************************************************************************)
(* C22.  A test run count fetch that succeeds yields no total-test-runs    *)
(* observation when the all-test-runs bucket list is empty, and otherwise  *)
(* one, whose value is the last sample of the first bucket of the list.    *)
(***************************************************************************)
C22_TotalFromFirstBucket ==
    \A i \in CallsOf(KRunCount) :
        LET r == calls[i].resp
            totals == OfFamily(Seg(i), TotalTestRunsCountMetric)
        IN /\ (Payload(i) /\ r.AllTestRuns = <<>>) => totals = <<>>
           /\ (Payload(i) /\ r.AllTestRuns # <<>> /\ r.AllTestRuns[1] # <<>>) =>
                 totals = <<[m |-> TotalTestRunsCountMetric,
                             l |-> <<Itoa(r.NodeID), r.NodeName>>,
                             v |-> r.AllTestRuns[1][Len(r.AllTestRuns[1])]]>>

C22_Witness ==
    \E i \in CallsOf(KRunCount) :
        /\ Payload(i)
        /\ calls[i].resp.AllTestRuns = <<<<25, 10>>, <<10, 25>>>>
        /\ Len(Seg(i)) >= 1
        /\ Seg(i)[1].m = TotalTestRunsCountMetric /\ Seg(i)[1].v = 10

(***************************************************************************)
(* C23.  A run rate fetch that succeeds with samples in both sequences     *)
(* yields the slippage observation with the value of the last slippage     *)
(* sample and the run rate observation with the value of the last run rate *)
(* sample, and nothing else.                                               *)
(***************************************************************************)
C23_LastSampleOnly ==
    \A i \in CallsOf(KRunRate) :
        LET r == calls[i].resp
        IN (Payload(i) /\ r.hasData /\ r.RequestSlippages # <<>> /\ r.RunRates # <<>>) =>
               Seg(i) = <<[m |-> TestRequestSlippageMetric,
                           l |-> <<Itoa(r.NodeID), r.NodeName>>,
                           v |-> r.RequestSlippages[Len(r.RequestSlippages)]],
                          [m |-> TestRunRateMetric,
                           l |-> <<Itoa(r.NodeID), r.NodeName>>,
                           v |-> r.RunRates[Len(r.RunRates)]]>>

C23_Witness ==
    \E i \in CallsOf(KRunRate) :
        /\ Payload(i) /\ calls[i].resp.hasData
        /\ calls[i].resp.RequestSlippages = <<95, 100>>
        /\ calls[i].resp.RunRates = <<100, 95>>
        /\ Len(Seg(i)) = 2
        /\ Seg(i)[1].v = 100 /\ Seg(i)[2].v = 95

(***************************************************************************)
(* C24.  As claimed: an SLA fetch that succeeds with a non-empty item list *)
(* yields exactly one SLA count observation per distinct status type name  *)
(* among the items, valued with the number of items of that name, so that  *)
(* the values sum to the number of items returned.                         *)
(***************************************************************************)
C24_CountsCoverItems ==
    \A i \in CallsOf(KSLA) :
        LET r == calls[i].resp
            names == {r.SLAItems[k] : k \in 1..Len(r.SLAItems)}
        IN (Payload(i) /\ r.hasData /\ r.hasItems /\ r.SLAItems # <<>>) =>
               /\ Len(Seg(i)) = Cardinality(names)
               /\ ObsSet(Seg(i)) =
                      {[m |-> SLAPurgeItemsCountMetric, l |-> <<s>>,
                        v |-> Cardinality({k \in 1..Len(r.SLAItems) : r.SLAItems[k] = s})] :
                           s \in names}
               /\ SeqValuesSum(Seg(i)) = Len(r.SLAItems)

(***************************************************************************)
(* C25.  A dimension name counts by what stands before and after its first *)
(* colon only.  After a test errors fetch that succeeds, the error-by-type *)
(* observations are, for each text v, the sum of the first values of the   *)
(* summary items over their dimensions "ErrorType:v", and the error-by-ip  *)
(* observations the same over the dimensions "HostIP:v", where v is        *)
(* everything after the first colon; a dimension with another prefix or    *)
(* without a colon adds to neither and does not stop the scrape.           *)
(***************************************************************************)
\* <<prefix, rest>> around the first colon of a name, <<>> without a colon
AroundFirstColon(name) ==
    IF \A i \in 1..Len(name) : name[i] # ":" THEN <<>>
    ELSE LET c == CHOOSE i \in 1..Len(name) :
                      name[i] = ":" /\ \A j \in 1..(i - 1) : name[j] # ":"
         IN <<Join([k \in 1..(c - 1) |-> name[k]]),
              Join([k \in 1..(Len(name) - c) |-> name[c + k]])>>

\* positions <<response item, summary item, dimension>> of the dimensions
\* with the given prefix, in summary items that have a value
DimensionPositions(items, prefix) ==
    UNION {UNION {{<<a, b, d>> : d \in {e \in 1..Len(items[a][b].Dimensions) :
                                     /\ items[a][b].Values # <<>>
                                     /\ AroundFirstColon(items[a][b].Dimensions[e]) # <<>>
                                     /\ AroundFirstColon(items[a][b].Dimensions[e])[1] = prefix}} :
                     b \in 1..Len(items[a])} : a \in 1..Len(items)}

GroupedObs(items, prefix, metric) ==
    LET pos == DimensionPositions(items, prefix)
        key(q) == AroundFirstColon(items[q[1]][q[2]].Dimensions[q[3]])[2]
    IN {[m |-> metric, l |-> <<v>>,
         v |-> FnSum([q \in {x \in pos : key(x) = v} |-> items[q[1]][q[2]].Values[1]])] :
            v \in {key(q) : q \in pos}}

C25_SplitOnFirstColon ==
    \A i \in CallsOf(KTestErrors) :
        Payload(i) =>
            LET items == calls[i].resp.ResponseItems
                byType == OfFamily(Seg(i), TestErrorByTypeMetric)
                byIP == OfFamily(Seg(i), TestErrorByIPCountMetric)
            IN /\ ObsSet(byType) = GroupedObs(items, "ErrorType", TestErrorByTypeMetric)
               /\ Len(byType) = Cardinality(ObsSet(byType))
               /\ ObsSet(byIP) = GroupedObs(items, "HostIP", TestErrorByIPCountMetric)
               /\ Len(byIP) = Cardinality(ObsSet(byIP))
               /\ Len(Seg(i)) = 1 + Len(byType) + Len(byIP)
               /\ (i = Len(calls) => pc # "panicked")

C25_Witness ==
    \E i \in CallsOf(KTestErrors) :
        /\ Payload(i)
        /\ calls[i].resp.ResponseItems =
               <<<<[Values |-> <<2, 1>>,
                    Dimensions |-> <<<<"HostIP", ":", "fe80", ":", "1">>,
                                     <<"Region", ":", "EU">>, <<"ErrorType">>>>]>>>>
        /\ Seg(i) = <<[m |-> TestErrorTotalCountMetric, l |-> <<>>, v |-> 3],
                      [m |-> TestErrorByIPCountMetric, l |-> <<"fe80:1">>, v |-> 2]>>

(***************************************************************************)
(* C26.  A test runs fetch that succeeds yields, for each entry            *)
(* of its list and in the order of the list, one usage observation and one *)
(* downtime observation labelled with the configured node id the fetch was *)
(* made for, the test name and the monitor group name of the entry, and    *)
(* nothing else, whatever the test runs fetches of the other nodes return. *)
(***************************************************************************)
C26_TwoPerEntry ==
    \A i \in CallsOf(KTestRuns) :
        LET r == calls[i].resp
        IN Payload(i) =>
               /\ calls[i].node \in {NodeIds[k] : k \in 1..Len(NodeIds)}
               /\ Len(Seg(i)) = 2 * Len(r.TestRuns)
               /\ \A k \in 1..Len(r.TestRuns) :
                      LET labels == <<Itoa(calls[i].node), r.TestRuns[k].TestName,
                                      r.TestRuns[k].MonitorGroup>>
                      IN /\ Seg(i)[2 * k - 1] =
                                [m |-> TestUsagePercentageMetric, l |-> labels,
                                 v |-> r.TestRuns[k].UsagePercentage]
                         /\ Seg(i)[2 * k] =
                                [m |-> TestDownTimePercentageMetric, l |-> labels,
                                 v |-> r.TestRuns[k].DownTimePercentage]

\* the fetch of node 1 fails, the fetch of node 2 returns two entries
C26_Witness ==
    /\ NodeIds = <<1, 2>>
    /\ \E i, j \in CallsOf(KTestRuns) :
          /\ calls[i].node = 1 /\ Failed(i)
          /\ calls[j].node = 2 /\ Payload(j) /\ calls[j].resp.hasData
          /\ Len(calls[j].resp.TestRuns) = 2
          /\ calls[j].resp.TestRuns[1].TestName # calls[j].resp.TestRuns[2].TestName
          /\ Len(Seg(j)) = 4
          /\ \A k \in 1..4 : Seg(j)[k].l[1] = "2"

(***************************************************************************)
(* Scrapes in a row: the collector is built and registered once, and the   *)
(* registry invokes Collect on it again for the next request, with a new   *)
(* channel.  The invocations that returned are kept in `scrapes`, each     *)
(* with the collector it left behind.                                      *)
(***************************************************************************)
Returned == pc \in {"done", "returned"}

Rescrape ==
    /\ Returned
    /\ Len(scrapes) + 1 < Cardinality(ScrapeIds)
    /\ scrapes' = Append(scrapes, [pc |-> pc, ch |-> ch, calls |-> calls,
                                   hasConfig |-> hasConfig, hasClient |-> hasClient,
                                   NodeIds |-> NodeIds, client |-> client])
    /\ pc' = "start"
    /\ idx' = 1
    /\ ch' = <<>>
    /\ calls' = <<>>
    /\ UNCHANGED <<hasConfig, hasClient, NodeIds, focus, focusIdx, client, acc>>

NextRepeated == Next \/ Rescrape

\* every fetch fails or succeeds; the SLA block builds a map and ranges over
\* it, so its answers may also vary freely
InitRepeated == Init /\ focus \in {"none", KSLA} /\ Len(NodeIds) <= 1

SpecRepeated == InitRepeated /\ [][NextRepeated]_vars

ResponsesOf(cs) == [i \in 1..Len(cs) |-> cs[i].resp]

SameMultiset(a, b) ==
    /\ Len(a) = Len(b)
    /\ \A o \in ObsSet(a) \cup ObsSet(b) :
           Cardinality({k \in 1..Len(a) : a[k] = o}) = Cardinality({k \in 1..Len(b) : b[k] = o})

(***************************************************************************)
(* C27.  No state is carried across scrapes.  A scrape that returned left  *)
(* the configuration, the node id list and the fetch capability as the     *)
(* next scrape finds them, and made the calls its node id list fixes; two  *)
(* scrapes that returned after receiving the same responses emitted the    *)
(* same multiset of observations.                                          *)
(***************************************************************************)
C27_NoStateAcrossScrapes ==
    \A k \in 1..Len(scrapes) :
        LET p == scrapes[k]
        IN /\ p.hasConfig = hasConfig /\ p.hasClient = hasClient
           /\ p.NodeIds = NodeIds
           /\ p.client = client
           /\ p.pc = "done" =>
                  [i \in 1..Len(p.calls) |-> [kind |-> p.calls[i].kind, node |-> p.calls[i].node]]
                      = Schedule(NodeIds)
           /\ (Returned /\ ResponsesOf(calls) = ResponsesOf(p.calls)) =>
                  SameMultiset(ch, p.ch)

\* two scrapes with the same responses that sent the same SLA counts in
\* different orders
C27_Witness ==
    /\ Len(scrapes) = 1
    /\ pc = "done"
    /\ NodeIds = <<1>>
    /\ ResponsesOf(calls) = ResponsesOf(scrapes[1].calls)
    /\ \E i \in CallsOf(KSLA) : calls[i].resp.SLAItems = <<"Active", "Expired">>
    /\ ch # scrapes[1].ch
    /\ SameMultiset(ch, scrapes[1].ch)

(***************************************************************************)
(* C28.  The node status observation made from a returned node record has  *)
(* the value 1 when the record has a status whose name is exactly          *)
(* "active", and the value 0 otherwise, a record without status included;  *)
(* no node status observation has another value than 0 or 1.               *)
(***************************************************************************)
C28_ActiveIsOne ==
    \A i \in CallsOf(KNodeStatus) :
        LET r == calls[i].resp
        IN /\ \A k \in 1..Len(Seg(i)) : Seg(i)[k].v \in {0, 1}
           /\ (Payload(i) /\ ~NoNodeList(r)) =>
                  /\ Len(Seg(i)) = Len(r.Nodes)
                  /\ \A k \in 1..Len(r.Nodes) :
                         Seg(i)[k].v = 1 <=>
                             (r.Nodes[k].hasStatus /\ r.Nodes[k].StatusName = "active")

\* one list with a record named "Active" and a record without status, and
\* one with a record named "active"
C28_Witness ==
    /\ \E i \in CallsOf(KNodeStatus) :
          /\ Payload(i) /\ ~NoNodeList(calls[i].resp) /\ Len(calls[i].resp.Nodes) = 2
          /\ calls[i].resp.Nodes[1].hasStatus /\ calls[i].resp.Nodes[1].StatusName = "Active"
          /\ ~calls[i].resp.Nodes[2].hasStatus
          /\ Len(Seg(i)) = 2 /\ Seg(i)[1].v = 0 /\ Seg(i)[2].v = 0
    /\ \E i \in CallsOf(KNodeStatus) :
          /\ Payload(i) /\ ~NoNodeList(calls[i].resp) /\ Len(calls[i].resp.Nodes) = 1
          /\ calls[i].resp.Nodes[1].hasStatus /\ calls[i].resp.Nodes[1].StatusName = "active"
          /\ Len(Seg(i)) = 1 /\ Seg(i)[1].v = 1

(***************************************************************************)
(* C29.  The per-node phase is grouped by resource: every test runs fetch  *)
(* is made before every run rate fetch, and every run rate fetch before    *)
(* every test run count fetch; a group is begun only when the group before *)
(* it has made its fetch for every configured node, and within a group the *)
(* fetches go through the node ids in their configured order.              *)
(***************************************************************************)
\* the fetches of `kind` made so far are those of the first node ids, in order
InNodeOrder(kind) ==
    \A i \in CallsOf(kind) :
        LET k == Cardinality({j \in CallsOf(kind) : j <= i})
        IN k <= Len(NodeIds) /\ calls[i].node = NodeIds[k]

\* no fetch of `later` before the group of `earlier` is complete
GroupBefore(earlier, later) ==
    /\ \A i \in CallsOf(earlier), j \in CallsOf(later) : i < j
    /\ CallsOf(later) # {} => Cardinality(CallsOf(earlier)) = Len(NodeIds)

C29_GroupedByResource ==
    /\ InNodeOrder(KTestRuns) /\ InNodeOrder(KRunRate) /\ InNodeOrder(KRunCount)
    /\ GroupBefore(KTestRuns, KRunRate)
    /\ GroupBefore(KRunRate, KRunCount)
    /\ GroupBefore(KTestRuns, KRunCount)

\* two nodes, the run rate fetch of the first one failed, all six fetches made
C29_Witness ==
    /\ NodeIds = <<2, 1>>
    /\ pc = "done"
    /\ \A kind \in {KTestRuns, KRunRate, KRunCount} : Cardinality(CallsOf(kind)) = 2
    /\ \E i \in CallsOf(KRunRate) : Failed(i) /\ calls[i].node = 2
    /\ \E i \in CallsOf(KTestRuns) :
          /\ calls[i].node = 2 /\ calls[i + 1].kind = KTestRuns /\ calls[i + 1].node = 1
          /\ calls[i + 2].kind = KRunRate /\ calls[i + 2].node = 2
          /\ calls[i + 3].kind = KRunRate /\ calls[i + 3].node = 1
          /\ calls[i + 4].kind = KRunCount /\ calls[i + 4].node = 2
          /\ calls[i + 5].kind = KRunCount /\ calls[i + 5].node = 1

(***************************************************************************)
(* C30.  A test errors fetch that succeeds yields the total observation    *)
(* exactly once, first of its observations; when the response has no       *)
(* response item, or none of its response items has a summary item, the    *)
(* total has the value 0 and is the only observation of the fetch.         *)
(***************************************************************************)
NoSummaryItems(items) == \A a \in 1..Len(items) : items[a] = <<>>

C30_TotalAlwaysEmitted ==
    \A i \in CallsOf(KTestErrors) :
        Payload(i) =>
            /\ Cardinality({k \in 1..Len(Seg(i)) : Seg(i)[k].m = TestErrorTotalCountMetric}) = 1
            /\ Seg(i)[1].m = TestErrorTotalCountMetric
            /\ NoSummaryItems(calls[i].resp.ResponseItems) =>
                   Seg(i) = <<[m |-> TestErrorTotalCountMetric, l |-> <<>>, v |-> 0]>>

\* a response whose one response item has no summary item
C30_Witness ==
    \E i \in CallsOf(KTestErrors) :
        /\ Payload(i)
        /\ calls[i].resp.ResponseItems = <<<<>>>>
        /\ Seg(i) = <<[m |-> TestErrorTotalCountMetric, l |-> <<>>, v |-> 0]>>
        /\ pc # "panicked"

====
